---- MODULE Spec2Model ----
(***************************************************************************)
(* PubSubManager (PubSubManager.swift, generated by src/script_3.py) and   *)
(* the message types of MessageTypes.swift (src/script_2.py).              *)
(*                                                                         *)
(* Execution contexts of the code:                                         *)
(*   - the main actor (the class is @MainActor): connect, disconnect,      *)
(*     publish, publishAndWaitForResponse, every Task { @MainActor ... }.  *)
(*     Its jobs run one at a time, in the order they were enqueued         *)
(*     (mainQueue).  Transport listener callbacks call the main-actor      *)
(*     methods directly, so they are modelled as main-actor segments too.  *)
(*     A Task { @MainActor in ... } created on messageQueue is not         *)
(*     enqueued on the main actor where it is created: it starts on the    *)
(*     global executor and hops, so that two such Tasks can reach the      *)
(*     main actor in either order (RunLaterMessageJob).                    *)
(*   - DispatchQueue.global(): the timeout closure of                      *)
(*     publishAndWaitForResponse.                                          *)
(*   - messageQueue (serial): handleReceivedMessage.                       *)
(* pendingResponses is touched by all three without synchronisation, so a  *)
(* removeValue(forKey:) made off the main actor is two steps: the lookup   *)
(* and the removal.                                                        *)
(***************************************************************************)
EXTENDS Integers, Sequences, FiniteSets, TLC

\* ---------------------------------------------------------------- bounds
MaxCalls == 2       \* publishAndWaitForResponse calls
MaxIds == 2         \* distinct command ids (UUIDs)
MaxTime == 2        \* clock ticks
MaxTimeout == 1     \* largest timeout argument
MaxFrames == 1      \* inbound frames the transport delivers
MaxEvents == 1      \* transport-originated status events
MaxConnects == 2    \* connect() calls
MaxDisconnects == 1 \* disconnect() calls
MaxBeats == 1       \* firings of heartbeat timers
MaxStatusEvents == 2    \* transport status events received by a connected manager
MaxDispatchFrames == 2  \* inbound frames handled one after the other

\* ------------------------------------------------------------ vocabulary
DaemonType == {"user", "system", "broadcast"}

MessageType == {"heartbeat", "system_status", "user_activity", "configuration",
                "command", "response", "error", "shutdown"}

ConnectionStatus == {"disconnected", "connecting", "connected", "reconnecting", "failed"}

\* ChannelConfiguration: the five logical channels, by field
systemChannel == "system"
userChannel == "user"
heartbeatChannel == "heartbeat"
commandChannel == "command"
statusChannel == "status"
Channels == {systemChannel, userChannel, heartbeatChannel, commandChannel, statusChannel}

NoChannel == "nil"  \* the channel argument left out (channel: String? = nil)
NoCall == 0         \* no handler stored under a key of pendingResponses
NoTimer == 0        \* heartbeatTimer == nil

Calls == 1..MaxCalls
Ids == 1..MaxIds

VARIABLES
    daemonType,         \* let daemonType
    pubnub,             \* var pubnub: PubNub?  (TRUE = set)
    listening,          \* the manager is among the transport's listeners
    connectionStatus,   \* @Published connectionStatus
    subscribedChannels, \* @Published subscribedChannels
    heartbeatTimer,     \* var heartbeatTimer: Timer?  (id of the timer it refers to)
    timers,             \* scheduled, not invalidated Timer objects
    timersMade,         \* number of Timer objects created so far
    beats,              \* number of timer firings so far
    pendingResponses,   \* [UUID: (ResponseMessage) -> Void], handler named by its call
    mainQueue,          \* jobs enqueued on the main actor, oldest first
    messageQueue,       \* frames enqueued on messageQueue, oldest first
    mqLookup,           \* handleReceivedMessage between lookup and removal
    connectPc,          \* where the running connect() is
    connectMark,        \* Len(obsStatus) when the running connect() was called
    connectFrom,        \* connectionStatus when the running connect() was called
    connectResult,      \* the connect() that returned last: its outcome, and the
                        \* manager's state at its return
    sinceConnect,       \* what ran since connect() last subscribed: "disconnect", "event"
    callId,             \* command.id of each publishAndWaitForResponse call
    callChannel,        \* its channel argument
    callAt,             \* the time it registered its handler
    callTimeout,        \* its timeout argument
    callTimer,          \* its timeout closure
    callPublish,        \* its publish Task
    completions,        \* resumes of its continuation, oldest first
    lastPublish,        \* the latest pubnub.publish(channel:message:)
    obsStatus,          \* delegate didUpdateConnectionStatus calls, oldest first
    obsMessages,        \* delegate didReceiveMessage calls, oldest first
    handled,            \* the frame handleReceivedMessage took last, what it did with it,
                        \* and what it did with the frame before
    now,                \* clock
    framesLeft, eventsLeft, connectsLeft, disconnectsLeft,
    credentials,        \* configuration.publishKey and subscribeKey are set
    codec,              \* a message, the PubSubMessage wrapping it and what decoding gave
    inTime,             \* the frame received last found its handler stored, its timeout
                        \* not yet elapsed
    lastEvent,          \* the status of the connectionStatusChanged event received last
    atDisconnect        \* the calls whose handler was stored when disconnect() ran last

vars == <<daemonType, pubnub, listening, connectionStatus, subscribedChannels,
          heartbeatTimer, timers, timersMade, beats, pendingResponses, mainQueue,
          messageQueue, mqLookup, connectPc, connectMark, connectFrom, connectResult,
          sinceConnect, callId, callChannel, callAt, callTimeout, callTimer, callPublish,
          completions, lastPublish, obsStatus, obsMessages, handled, now,
          framesLeft, eventsLeft, connectsLeft, disconnectsLeft,
          credentials, codec, inTime, lastEvent, atDisconnect>>

connVars == <<connectionStatus, subscribedChannels, heartbeatTimer, timers, timersMade,
              connectPc, connectMark, connectFrom, connectResult, sinceConnect>>
callVars == <<callId, callChannel, callAt, callTimeout, callTimer, callPublish, completions>>
budgetVars == <<framesLeft, eventsLeft, connectsLeft, disconnectsLeft>>
auxVars == <<credentials, codec, inTime, lastEvent, atDisconnect>>

\* ------------------------------------------------------------- messages
\* An inbound PubNubMessage, as far as handleReceivedMessage reads it:
\*   parses        the payload decodes as a PubSubMessage (the wrapper)
\*   messageType   PubSubMessage.messageType
\*   source        PubSubMessage.source
\*   payloadOk     PubSubMessage.payload decodes as the struct decodeMessage asks for
\*   correlationId ResponseMessage.correlationId of the decoded payload (0: none)
\*   seq           the position of the frame in the transport's delivery order
Unparsable(n) ==
    [parses |-> FALSE, messageType |-> "error", source |-> "broadcast",
     payloadOk |-> FALSE, correlationId |-> 0, seq |-> n]

Frame(t, s, ok, k, n) ==
    [parses |-> TRUE, messageType |-> t, source |-> s,
     payloadOk |-> ok, correlationId |-> k, seq |-> n]

\* every frame the transport can deliver as its n-th
AllFrames(n) ==
    {Unparsable(n)}
    \cup {Frame(t, s, FALSE, 0, n) : t \in MessageType, s \in DaemonType}
    \cup {Frame(t, s, TRUE, 0, n) : t \in MessageType \ {"response"}, s \in DaemonType}
    \cup {Frame("response", s, TRUE, k, n) : s \in DaemonType, k \in Ids}

\* the well-formed Response frames among them
ResponseFrames(n) == {f \in AllFrames(n) : f.messageType = "response" /\ f.payloadOk}

NoFrame == Unparsable(0)

\* the frame f found a handler stored under its correlationId, the timeout of the call
\* that stored it not yet elapsed
InTime(pending, f) ==
    /\ f.parses
    /\ f.messageType = "response"
    /\ f.payloadOk
    /\ pending[f.correlationId] # NoCall
    /\ now < callAt[pending[f.correlationId]] + callTimeout[pending[f.correlationId]]

\* ------------------------------------------------------- message types
\* Values of the four structs conforming to BaseMessage.  An Optional that is nil is
\* "nil"; a Double is finite ("0.5", "1.0") or not ("inf").
Nil == "nil"
Targets == DaemonType \cup {Nil}

HeartbeatMessage ==
    [id : Ids, timestamp : {"date"}, messageType : {"heartbeat"}, source : DaemonType,
     target : Targets, systemLoad : {Nil, "0.5", "inf"}, memoryUsage : {Nil, "0.5"},
     uptime : {"1.0", "inf"}]

SystemStatusMessage ==
    [id : Ids, timestamp : {"date"}, messageType : {"system_status"}, source : DaemonType,
     target : Targets, status : {"healthy", "critical"}, details : {Nil, "details"}]

CommandMessage ==
    [id : Ids, timestamp : {"date"}, messageType : {"command"}, source : DaemonType,
     target : Targets, command : {"run"}, parameters : {Nil, "parameters"},
     priority : {"normal"}, requiresResponse : BOOLEAN]

ResponseMessage ==
    [id : Ids, timestamp : {"date"}, messageType : {"response"}, source : DaemonType,
     target : Targets, correlationId : Ids, success : BOOLEAN, result : {Nil, "result"},
     errorMessage : {Nil}]

BaseMessage == HeartbeatMessage \cup SystemStatusMessage \cup CommandMessage
               \cup ResponseMessage

\* the stored properties of the struct of each messageType that has one
Properties(kind) ==
    {"id", "timestamp", "messageType", "source", "target"} \cup
    (CASE kind = "heartbeat" -> {"systemLoad", "memoryUsage", "uptime"}
       [] kind = "system_status" -> {"status", "details"}
       [] kind = "command" -> {"command", "parameters", "priority", "requiresResponse"}
       [] kind = "response" -> {"correlationId", "success", "result", "errorMessage"}
       [] OTHER -> {})

\* those declared Optional
OptionalProperties ==
    {"target", "systemLoad", "memoryUsage", "details", "parameters", "result",
     "errorMessage"}

\* those of type Double
DoubleProperties == {"systemLoad", "memoryUsage", "uptime"}

Throws == [error |-> "thrown"]

\* JSONEncoder().encode(message): a JSON object with one key for every property that
\* is not nil; a Double that is not finite makes the encoder throw
JSONEncode(m) ==
    IF \E k \in DOMAIN m \cap DoubleProperties : m[k] = "inf"
    THEN Throws
    ELSE [k \in {x \in DOMAIN m : x \notin OptionalProperties \/ m[x] # Nil} |-> m[k]]

\* every property needing its key, the Optional ones too
JSONDecodeEveryKeyRequired(kind, json) ==
    IF \E k \in Properties(kind) : k \notin DOMAIN json
    THEN Throws
    ELSE [k \in Properties(kind) |-> IF k = "messageType" THEN kind ELSE json[k]]

\* JSONDecoder().decode(type, from: payload) for the struct of the given messageType:
\* every property that is not Optional must have its key; messageType is a let with an
\* initial value, so the key of the payload is not read for it
JSONDecode(kind, json) ==
    IF \E k \in Properties(kind) \ OptionalProperties : k \notin DOMAIN json
    THEN Throws
    ELSE [k \in Properties(kind) |->
            IF k = "messageType" THEN kind
            ELSE IF k \in DOMAIN json THEN json[k]
            ELSE Nil]

\* PubSubMessage(message:priority:)
PubSubMessage(m) ==
    IF JSONEncode(m) = Throws
    THEN Throws
    ELSE [messageType |-> m.messageType, payload |-> JSONEncode(m), priority |-> "normal",
          source |-> m.source, target |-> m.target]

\* PubSubMessage.decode(as:), with the struct of the given messageType
decode(w, kind) == JSONDecode(kind, w.payload)

\* What handleReceivedMessage reads of an inbound PubSubMessage w, the n-th delivered
AsFrame(w, n) ==
    Frame(w.messageType, w.source, decode(w, w.messageType) # Throws,
          IF w.messageType = "response" /\ decode(w, "response") # Throws
          THEN decode(w, "response").correlationId
          ELSE 0,
          n)

\* codec: the message handed to PubSubMessage(message:), the PubSubMessage made of it,
\* the one a peer made of that by changing a field, and the decoded message
NoCodec == [stage |-> "none", message |-> Throws, frame |-> Throws, decoded |-> Throws]

\* ------------------------------------------------------- pure functions
\* every role given the list of .broadcast
AllChannelsForEveryRole(role) ==
    <<systemChannel, userChannel, heartbeatChannel, commandChannel, statusChannel>>

\* getChannelsForDaemonType(): the list handed to pubnub.subscribe(to:)
getChannelsForDaemonType(role) ==
    CASE role = "user" ->
           <<userChannel, heartbeatChannel, commandChannel, statusChannel>>
      [] role = "system" ->
           <<systemChannel, heartbeatChannel, commandChannel, statusChannel>>
      [] role = "broadcast" ->
           <<systemChannel, userChannel, heartbeatChannel, commandChannel, statusChannel>>

\* Set(channels)
SetOf(seq) == {seq[i] : i \in 1..Len(seq)}

\* the default branch testing for .system instead of .user
DefaultChannelSystemElseUser(role, kind) ==
    CASE kind = "heartbeat" -> heartbeatChannel
      [] kind = "system_status" -> statusChannel
      [] kind \in {"command", "response"} -> commandChannel
      [] kind = "user_activity" -> userChannel
      [] OTHER -> IF role = "system" THEN systemChannel ELSE userChannel

\* getDefaultChannelForMessage(message), by message.messageType
getDefaultChannelForMessage(role, kind) ==
    CASE kind = "heartbeat" -> heartbeatChannel
      [] kind = "system_status" -> statusChannel
      [] kind \in {"command", "response"} -> commandChannel
      [] kind = "user_activity" -> userChannel
      [] OTHER -> IF role = "user" THEN userChannel ELSE systemChannel

\* publish(message:to:): let targetChannel = channel ?? getDefaultChannelForMessage(message)
targetChannel(role, kind, channel) ==
    IF channel # NoChannel THEN channel ELSE getDefaultChannelForMessage(role, kind)

\* the record of one pubnub.publish(channel:message:) call
Published(role, kind, channel, origin) ==
    [messageType |-> kind, channel |-> channel,
     target |-> targetChannel(role, kind, channel), origin |-> origin]

NoPublish == [messageType |-> "none", channel |-> NoChannel, target |-> NoChannel,
              origin |-> "none"]

\* the default branch decoding like the others
decodeMessageOfAnyType(f) == IF f.payloadOk THEN "ok" ELSE "throws"

\* decodeMessage(pubSubMessage): "ok" when a typed message comes back, "throws" otherwise
decodeMessage(f) ==
    IF f.messageType \in {"heartbeat", "system_status", "command", "response"}
    THEN (IF f.payloadOk THEN "ok" ELSE "throws")
    ELSE "throws"

\* the check left out
NoSelfEcho(role, f) == FALSE

\* the check taking every broadcast frame for the daemon's own as well
BroadcastIsEcho(role, f) == f.source = role \/ f.source = "broadcast"

\* if pubSubMessage.source == daemonType { return }
IsSelfEcho(role, f) == f.source = role

\* ------------------------------------------------------ main-actor jobs
\* Task { @MainActor in connectionStatus = status; delegate?...didUpdateConnectionStatus }
StatusJob(st, by) == [job |-> "status", status |-> st, origin |-> by, msg |-> NoFrame]
\* Task { @MainActor in delegate?...didReceiveMessage }
MessageJob(f) == [job |-> "message", status |-> "none", origin |-> "dispatch", msg |-> f]
\* the rest of connect() after try await sendHeartbeat()
ResumeJob(res) == [job |-> "resume", status |-> res, origin |-> "connect", msg |-> NoFrame]

\* Task { try? await self.sendHeartbeat() } of the heartbeat timer
HeartbeatJob == [job |-> "heartbeat", status |-> "none", origin |-> "timer", msg |-> NoFrame]

\* updateConnectionStatus(status)
updateConnectionStatus(q, st, by) == Append(q, StatusJob(st, by))

\* ----------------------------------------------------------------- init
Idle == [handler |-> NoCall, frame |-> NoFrame]

\* connectResult: outcome ("ok", "error", "notConfigured"), and, when connect() returned,
\* connectionStatus, subscribedChannels and sinceConnect, with connectFrom and connectMark
Returned(res) ==
    [outcome |-> res, status |-> connectionStatus, subscribed |-> subscribedChannels,
     since |-> sinceConnect, from |-> connectFrom, mark |-> connectMark]

NoResult == [outcome |-> "none", status |-> "none", subscribed |-> {}, since |-> {},
             from |-> "none", mark |-> 0]

Init ==
    /\ daemonType \in DaemonType
    /\ pubnub = TRUE                     \* init calls setupPubNub()
    /\ listening = TRUE                  \* pubnub?.add(self)
    /\ connectionStatus = "disconnected"
    /\ subscribedChannels = {}
    /\ heartbeatTimer = NoTimer
    /\ timers = {}
    /\ timersMade = 0
    /\ beats = 0
    /\ pendingResponses = [k \in Ids |-> NoCall]
    /\ mainQueue = <<>>
    /\ messageQueue = <<>>
    /\ mqLookup = Idle
    /\ connectPc = "idle"
    /\ connectMark = 0
    /\ connectFrom = "none"
    /\ connectResult = NoResult
    /\ sinceConnect = {}
    /\ callId = [c \in Calls |-> 0]
    /\ callChannel = [c \in Calls |-> NoChannel]
    /\ callAt = [c \in Calls |-> 0]
    /\ callTimeout = [c \in Calls |-> 0]
    /\ callTimer = [c \in Calls |-> "none"]
    /\ callPublish = [c \in Calls |-> "none"]
    /\ completions = [c \in Calls |-> <<>>]
    /\ lastPublish = NoPublish
    /\ obsStatus = <<>>
    /\ obsMessages = <<>>
    /\ handled = [frame |-> NoFrame, fate |-> "none", previous |-> "none"]
    /\ now = 0
    /\ framesLeft = MaxFrames
    /\ eventsLeft = MaxEvents
    /\ connectsLeft = MaxConnects
    /\ disconnectsLeft = MaxDisconnects
    /\ credentials \in BOOLEAN           \* the keys of the configuration may be empty
    /\ codec = NoCodec
    /\ inTime = FALSE
    /\ lastEvent = "none"
    /\ atDisconnect = {}

\* The manager after its first connect() has returned and the status Tasks have run
InitConnected ==
    /\ daemonType \in DaemonType
    /\ pubnub = TRUE
    /\ listening = TRUE
    /\ connectionStatus = "connected"
    /\ subscribedChannels = SetOf(getChannelsForDaemonType(daemonType))
    /\ heartbeatTimer = 1
    /\ timers = {1}
    /\ timersMade = 1
    /\ beats = 0
    /\ pendingResponses = [k \in Ids |-> NoCall]
    /\ mainQueue = <<>>
    /\ messageQueue = <<>>
    /\ mqLookup = Idle
    /\ connectPc = "idle"
    /\ connectMark = 0
    /\ connectFrom = "disconnected"
    /\ connectResult = [outcome |-> "ok", status |-> "connected",
                        subscribed |-> SetOf(getChannelsForDaemonType(daemonType)),
                        since |-> {}, from |-> "disconnected", mark |-> 0]
    /\ sinceConnect = {}
    /\ callId = [c \in Calls |-> 0]
    /\ callChannel = [c \in Calls |-> NoChannel]
    /\ callAt = [c \in Calls |-> 0]
    /\ callTimeout = [c \in Calls |-> 0]
    /\ callTimer = [c \in Calls |-> "none"]
    /\ callPublish = [c \in Calls |-> "none"]
    /\ completions = [c \in Calls |-> <<>>]
    /\ lastPublish = Published(daemonType, "heartbeat", heartbeatChannel, "connect")
    /\ obsStatus = <<[status |-> "connecting", origin |-> "connect"],
                     [status |-> "connected", origin |-> "connect"]>>
    /\ obsMessages = <<>>
    /\ handled = [frame |-> NoFrame, fate |-> "none", previous |-> "none"]
    /\ now = 0
    /\ framesLeft = MaxFrames
    /\ eventsLeft = MaxEvents
    /\ connectsLeft = MaxConnects - 1
    /\ disconnectsLeft = MaxDisconnects
    /\ credentials = TRUE
    /\ codec = NoCodec
    /\ inTime = FALSE
    /\ lastEvent = "none"
    /\ atDisconnect = {}

\* The same state, with other numbers of frames and of status events to come
Connected(frames, events) ==
    /\ daemonType \in DaemonType
    /\ pubnub = TRUE
    /\ listening = TRUE
    /\ connectionStatus = "connected"
    /\ subscribedChannels = SetOf(getChannelsForDaemonType(daemonType))
    /\ heartbeatTimer = 1
    /\ timers = {1}
    /\ timersMade = 1
    /\ beats = 0
    /\ pendingResponses = [k \in Ids |-> NoCall]
    /\ mainQueue = <<>>
    /\ messageQueue = <<>>
    /\ mqLookup = Idle
    /\ connectPc = "idle"
    /\ connectMark = 0
    /\ connectFrom = "disconnected"
    /\ connectResult = [outcome |-> "ok", status |-> "connected",
                        subscribed |-> SetOf(getChannelsForDaemonType(daemonType)),
                        since |-> {}, from |-> "disconnected", mark |-> 0]
    /\ sinceConnect = {}
    /\ callId = [c \in Calls |-> 0]
    /\ callChannel = [c \in Calls |-> NoChannel]
    /\ callAt = [c \in Calls |-> 0]
    /\ callTimeout = [c \in Calls |-> 0]
    /\ callTimer = [c \in Calls |-> "none"]
    /\ callPublish = [c \in Calls |-> "none"]
    /\ completions = [c \in Calls |-> <<>>]
    /\ lastPublish = Published(daemonType, "heartbeat", heartbeatChannel, "connect")
    /\ obsStatus = <<[status |-> "connecting", origin |-> "connect"],
                     [status |-> "connected", origin |-> "connect"]>>
    /\ obsMessages = <<>>
    /\ handled = [frame |-> NoFrame, fate |-> "none", previous |-> "none"]
    /\ now = 0
    /\ framesLeft = frames
    /\ eventsLeft = events
    /\ connectsLeft = MaxConnects - 1
    /\ disconnectsLeft = MaxDisconnects
    /\ credentials = TRUE
    /\ codec = NoCodec
    /\ inTime = FALSE
    /\ lastEvent = "none"
    /\ atDisconnect = {}

\* ------------------------------------------- publishAndWaitForResponse
\* continuation.resume(...) of call c
Resume(done, c, what) == [done EXCEPT ![c] = Append(@, what)]

\* pendingResponses[command.id] = { response in continuation.resume(returning: response) }
StoreHandler(pending, id, c) == [pending EXCEPT ![id] = c]

\* the value read, the key left in place
RemoveHandlerKeepsKey(pending, id) == pending

\* pendingResponses.removeValue(forKey: id), the removal
RemoveHandler(pending, id) == [pending EXCEPT ![id] = NoCall]

\* The body of withCheckedThrowingContinuation: the handler is stored, the timeout
\* closure is scheduled and the publish Task is created.  Calls are numbered in the
\* order they are made.
Register(c, id, T, ch) ==
    /\ callId[c] = 0
    /\ IF c = 1 THEN TRUE ELSE callId[c - 1] # 0
    /\ pendingResponses' = StoreHandler(pendingResponses, id, c)
    /\ callId' = [callId EXCEPT ![c] = id]
    /\ callChannel' = [callChannel EXCEPT ![c] = ch]
    /\ callAt' = [callAt EXCEPT ![c] = now]
    /\ callTimeout' = [callTimeout EXCEPT ![c] = T]
    /\ callTimer' = [callTimer EXCEPT ![c] = "armed"]
    /\ callPublish' = [callPublish EXCEPT ![c] = "task"]
    /\ UNCHANGED <<auxVars, daemonType, pubnub, listening, connVars, beats, mainQueue, messageQueue,
                   mqLookup, completions, lastPublish, obsStatus, obsMessages, handled, now,
                   budgetVars>>

\* The Task runs: try await self.publish(message: command, to: channel) up to the
\* suspension in pubnub.publish; without a pubnub, publish throws notConfigured and
\* the catch runs at once.
PublishStart(c) ==
    /\ callPublish[c] = "task"
    /\ IF pubnub
       THEN /\ lastPublish' = Published(daemonType, "command", callChannel[c], "command")
            /\ callPublish' = [callPublish EXCEPT ![c] = "inflight"]
            /\ UNCHANGED <<pendingResponses, completions>>
       ELSE /\ pendingResponses' = RemoveHandler(pendingResponses, callId[c])
            /\ completions' = Resume(completions, c, "error")
            /\ callPublish' = [callPublish EXCEPT ![c] = "done"]
            /\ UNCHANGED lastPublish
    /\ UNCHANGED <<auxVars, daemonType, pubnub, listening, connVars, beats, mainQueue, messageQueue,
                   mqLookup, callId, callChannel, callAt, callTimeout, callTimer,
                   obsStatus, obsMessages, handled, now, budgetVars>>

\* The transport reports the publish as done: continuation.resume()
PublishSucceeds(c) ==
    /\ callPublish[c] = "inflight"
    /\ callPublish' = [callPublish EXCEPT ![c] = "done"]
    /\ UNCHANGED <<auxVars, daemonType, pubnub, listening, connVars, beats, pendingResponses,
                   mainQueue, messageQueue, mqLookup, callId, callChannel, callAt,
                   callTimeout, callTimer, completions, lastPublish, obsStatus,
                   obsMessages, handled, now, budgetVars>>

\* The catch of the publish Task
PublishCatch(pending, done, c) ==
    [pending |-> RemoveHandler(pending, callId[c]), done |-> Resume(done, c, "error")]

\* The transport reports the publish as failed: continuation.resume(throwing:), and
\* the catch of the Task runs.
PublishFails(c) ==
    /\ callPublish[c] = "inflight"
    /\ callPublish' = [callPublish EXCEPT ![c] = "done"]
    /\ pendingResponses' = PublishCatch(pendingResponses, completions, c).pending
    /\ completions' = PublishCatch(pendingResponses, completions, c).done
    /\ UNCHANGED <<auxVars, daemonType, pubnub, listening, connVars, beats, mainQueue, messageQueue,
                   mqLookup, callId, callChannel, callAt, callTimeout, callTimer,
                   lastPublish, obsStatus, obsMessages, handled, now, budgetVars>>

\* the deadline set to .now()
TimeoutDueAtOnce(c) == now >= callAt[c]

\* asyncAfter(deadline: .now() + timeout): the closure may run once the deadline is reached
TimeoutDue(c) == now >= callAt[c] + callTimeout[c]

\* The timeout closure on DispatchQueue.global(): removeValue(forKey:) finds the key or not
TimeoutLookup(c) ==
    /\ callTimer[c] = "armed"
    /\ TimeoutDue(c)
    /\ callTimer' = [callTimer EXCEPT ![c] =
                        IF pendingResponses[callId[c]] # NoCall THEN "found" ELSE "done"]
    /\ UNCHANGED <<auxVars, daemonType, pubnub, listening, connVars, beats, pendingResponses,
                   mainQueue, messageQueue, mqLookup, callId, callChannel, callAt,
                   callTimeout, callPublish, completions, lastPublish, obsStatus,
                   obsMessages, handled, now, budgetVars>>

\* the closure testing the key without removing it
TimeoutClosureKeepsKey(pending, done, c) ==
    [pending |-> pending, done |-> Resume(done, c, "timeout")]

\* The body of the timeout closure once removeValue(forKey:) has found the key
TimeoutClosure(pending, done, c) ==
    [pending |-> RemoveHandler(pending, callId[c]), done |-> Resume(done, c, "timeout")]

\* ... and, the key found, removes it and resumes throwing PubSubError.timeout
TimeoutRemove(c) ==
    /\ callTimer[c] = "found"
    /\ callTimer' = [callTimer EXCEPT ![c] = "done"]
    /\ pendingResponses' = TimeoutClosure(pendingResponses, completions, c).pending
    /\ completions' = TimeoutClosure(pendingResponses, completions, c).done
    /\ UNCHANGED <<auxVars, daemonType, pubnub, listening, connVars, beats, mainQueue, messageQueue,
                   mqLookup, callId, callChannel, callAt, callTimeout, callPublish,
                   lastPublish, obsStatus, obsMessages, handled, now, budgetVars>>

Tick ==
    /\ now < MaxTime
    /\ now' = now + 1
    /\ UNCHANGED <<auxVars, daemonType, pubnub, listening, connVars, beats, pendingResponses,
                   mainQueue, messageQueue, mqLookup, callVars, lastPublish, obsStatus,
                   obsMessages, handled, budgetVars>>

\* ---------------------------------------------------- inbound messages
\* client(_:didReceive:): messageQueue.async { self.handleReceivedMessage(message) }
Receive(f) ==
    /\ listening
    /\ subscribedChannels # {}           \* subscribed since the last unsubscribeAll()
    /\ framesLeft > 0
    /\ f.seq = MaxFrames - framesLeft + 1
    /\ messageQueue' = Append(messageQueue, f)
    /\ framesLeft' = framesLeft - 1
    /\ inTime' = InTime(pendingResponses, f)
    /\ UNCHANGED <<credentials, codec, lastEvent, atDisconnect, daemonType, pubnub, listening, connVars,
                   beats, pendingResponses, mainQueue, mqLookup, callVars, lastPublish, obsStatus,
                   obsMessages, handled, now, eventsLeft, connectsLeft, disconnectsLeft>>

\* the lookup in pendingResponses left out: every decoded message goes to the delegate
DispatchWithoutLookup(role, pending, f) ==
    IF ~f.parses THEN "undecoded"
    ELSE IF IsSelfEcho(role, f) THEN "self"
    ELSE IF decodeMessage(f) # "ok" THEN "thrown"
    ELSE "forwarded"

\* only Responses let through: every other decoded message is dropped
DispatchOfResponsesOnly(role, pending, f) ==
    IF ~f.parses THEN "undecoded"
    ELSE IF IsSelfEcho(role, f) THEN "self"
    ELSE IF decodeMessage(f) # "ok" THEN "thrown"
    ELSE IF f.messageType # "response" THEN "thrown"
    ELSE IF pending[f.correlationId] # NoCall THEN "lookup"
    ELSE "forwarded"

\* What handleReceivedMessage does with frame f up to the lookup in pendingResponses:
\*   "undecoded"  the guard on the PubSubMessage decode returns
\*   "self"       the frame is skipped as the daemon's own
\*   "thrown"     decodeMessage throws and the catch logs
\*   "lookup"     a ResponseMessage whose correlationId has a handler
\*   "forwarded"  the Task calling delegate didReceiveMessage is created
Dispatch(role, pending, f) ==
    IF ~f.parses THEN "undecoded"
    ELSE IF IsSelfEcho(role, f) THEN "self"
    ELSE IF decodeMessage(f) # "ok" THEN "thrown"
    ELSE IF f.messageType = "response" /\ pending[f.correlationId] # NoCall THEN "lookup"
    ELSE "forwarded"

\* handleReceivedMessage on the oldest frame of messageQueue, up to the lookup of
\* pendingResponses.removeValue(forKey: responseMessage.correlationId)
HandleLookup ==
    /\ mqLookup = Idle
    /\ messageQueue # <<>>
    /\ LET f == Head(messageQueue)
           d == Dispatch(daemonType, pendingResponses, f)
       IN /\ messageQueue' = Tail(messageQueue)
          /\ handled' = [frame |-> f, fate |-> d, previous |-> handled.fate]
          /\ mqLookup' = IF d = "lookup"
                         THEN [handler |-> pendingResponses[f.correlationId], frame |-> f]
                         ELSE Idle
          /\ mainQueue' = IF d = "forwarded"
                          THEN Append(mainQueue, MessageJob(f))
                          ELSE mainQueue
    /\ UNCHANGED <<auxVars, daemonType, pubnub, listening, connVars, beats, pendingResponses,
                   callVars, lastPublish, obsStatus, obsMessages, now, budgetVars>>

\* ... the handler found: the key is removed and responseHandler(responseMessage) runs
HandleRemove ==
    /\ mqLookup # Idle
    /\ pendingResponses' = RemoveHandler(pendingResponses, mqLookup.frame.correlationId)
    /\ completions' = Resume(completions, mqLookup.handler, "response")
    /\ handled' = [handled EXCEPT !.fate = "resolved"]
    /\ mqLookup' = Idle
    /\ UNCHANGED <<auxVars, daemonType, pubnub, listening, connVars, beats, mainQueue, messageQueue,
                   callId, callChannel, callAt, callTimeout, callTimer, callPublish,
                   lastPublish, obsStatus, obsMessages, now, budgetVars>>

\* Task { @MainActor in delegate?.pubSubManager(self, didReceiveMessage: decodedMessage) }
RunMessageJob ==
    /\ mainQueue # <<>>
    /\ Head(mainQueue).job = "message"
    /\ obsMessages' = Append(obsMessages, Head(mainQueue).msg)
    /\ mainQueue' = Tail(mainQueue)
    /\ UNCHANGED <<auxVars, daemonType, pubnub, listening, connVars, beats, pendingResponses,
                   messageQueue, mqLookup, callVars, lastPublish, obsStatus, handled, now,
                   budgetVars>>

\* The Task of a message created later reaches the main actor before one created
\* earlier: the delegate is called with the i-th job's message, i > 1, ahead of the
\* message Tasks before it
RunLaterMessageJob(i) ==
    /\ i \in 2..Len(mainQueue)
    /\ mainQueue[i].job = "message"
    /\ \E j \in 1..(i - 1) : mainQueue[j].job = "message"
    /\ obsMessages' = Append(obsMessages, mainQueue[i].msg)
    /\ mainQueue' = SubSeq(mainQueue, 1, i - 1) \o SubSeq(mainQueue, i + 1, Len(mainQueue))
    /\ UNCHANGED <<auxVars, daemonType, pubnub, listening, connVars, beats, pendingResponses,
                   messageQueue, mqLookup, callVars, lastPublish, obsStatus, handled, now,
                   budgetVars>>

\* ------------------------------------------------- connection management
\* startHeartbeat(): heartbeatTimer = Timer.scheduledTimer(...); the Timer the
\* variable referred to before stays scheduled
startHeartbeat(live, made) == live \cup {made + 1}

\* updateConnectionStatus(.connecting) left out
ConnectStatusesNoConnecting(q) == updateConnectionStatus(q, "connected", "connect")

\* The status Tasks of a connect() that does not throw before its heartbeat:
\* updateConnectionStatus(.connecting) ... updateConnectionStatus(.connected)
ConnectStatuses(q) ==
    updateConnectionStatus(updateConnectionStatus(q, "connecting", "connect"),
                           "connected", "connect")

\* connect() up to the suspension of try await sendHeartbeat() in pubnub.publish.
\* One connect() runs at a time.
Connect ==
    /\ connectPc = "idle"
    /\ connectsLeft > 0
    /\ connectsLeft' = connectsLeft - 1
    /\ IF ~pubnub
       THEN /\ connectResult' = [Returned("notConfigured") EXCEPT
                                   !.from = connectionStatus, !.mark = Len(obsStatus)]
            /\ UNCHANGED <<mainQueue, subscribedChannels, timers, timersMade,
                           heartbeatTimer, lastPublish, connectPc, connectMark, connectFrom,
                           sinceConnect>>
       ELSE /\ mainQueue' = ConnectStatuses(mainQueue)
            /\ sinceConnect' = {}
            /\ subscribedChannels' = SetOf(getChannelsForDaemonType(daemonType))
            /\ timers' = startHeartbeat(timers, timersMade)
            /\ timersMade' = timersMade + 1
            /\ heartbeatTimer' = timersMade + 1
            /\ lastPublish' = Published(daemonType, "heartbeat", heartbeatChannel, "connect")
            /\ connectPc' = "publishing"
            /\ connectMark' = Len(obsStatus)
            /\ connectFrom' = connectionStatus
            /\ UNCHANGED connectResult
    /\ UNCHANGED <<auxVars, daemonType, pubnub, listening, connectionStatus, beats, pendingResponses,
                   messageQueue, mqLookup, callVars, obsStatus, obsMessages, handled, now,
                   framesLeft, eventsLeft, disconnectsLeft>>

\* The transport reports the heartbeat publish of connect() as done or failed: the
\* continuation is resumed and the rest of connect() is enqueued on the main actor.
ConnectPublishDone(res) ==
    /\ connectPc = "publishing"
    /\ connectPc' = "resuming"
    /\ mainQueue' = Append(mainQueue, ResumeJob(res))
    /\ UNCHANGED <<auxVars, daemonType, pubnub, listening, connectionStatus, subscribedChannels,
                   heartbeatTimer, timers, timersMade, connectMark, connectFrom,
                   connectResult, sinceConnect, beats, pendingResponses, messageQueue,
                   mqLookup, callVars, lastPublish, obsStatus, obsMessages, handled, now,
                   budgetVars>>

ConnectPublishSucceeds == ConnectPublishDone("ok")
ConnectPublishFails == ConnectPublishDone("error")

\* connect() resumes: it returns, or its catch calls updateConnectionStatus(.failed(error))
\* and rethrows
RunResumeJob ==
    /\ mainQueue # <<>>
    /\ Head(mainQueue).job = "resume"
    /\ connectPc' = "idle"
    /\ connectResult' = Returned(Head(mainQueue).status)
    /\ mainQueue' = IF Head(mainQueue).status = "ok"
                    THEN Tail(mainQueue)
                    ELSE updateConnectionStatus(Tail(mainQueue), "failed", "connect")
    /\ UNCHANGED <<auxVars, daemonType, pubnub, listening, connectionStatus, subscribedChannels,
                   heartbeatTimer, timers, timersMade, connectMark, connectFrom,
                   sinceConnect, beats, pendingResponses, messageQueue, mqLookup, callVars,
                   lastPublish, obsStatus, obsMessages, handled, now, budgetVars>>

\* Task { @MainActor in connectionStatus = status; delegate?...didUpdateConnectionStatus }
RunStatusJob ==
    /\ mainQueue # <<>>
    /\ Head(mainQueue).job = "status"
    /\ connectionStatus' = Head(mainQueue).status
    /\ obsStatus' = Append(obsStatus, [status |-> Head(mainQueue).status,
                                       origin |-> Head(mainQueue).origin])
    /\ mainQueue' = Tail(mainQueue)
    /\ UNCHANGED <<auxVars, daemonType, pubnub, listening, subscribedChannels, heartbeatTimer,
                   timers, timersMade, connectPc, connectMark, connectFrom, connectResult,
                   sinceConnect, beats, pendingResponses, messageQueue, mqLookup, callVars,
                   lastPublish, obsMessages, handled, now, budgetVars>>

\* the calls whose handler is stored in pendingResponses
Waiters(pending) == {c \in Calls : \E k \in Ids : pending[k] = c}

\* disconnect() also dropping the handlers of the outstanding calls
DisconnectCancelsWaiters ==
    /\ disconnectsLeft > 0
    /\ disconnectsLeft' = disconnectsLeft - 1
    /\ timers' = timers \ {heartbeatTimer}
    /\ heartbeatTimer' = NoTimer
    /\ listening' = FALSE
    /\ subscribedChannels' = {}
    /\ mainQueue' = updateConnectionStatus(mainQueue, "disconnected", "disconnect")
    /\ sinceConnect' = sinceConnect \cup {"disconnect"}
    /\ atDisconnect' = Waiters(pendingResponses)
    /\ pendingResponses' = [k \in Ids |-> NoCall]
    /\ UNCHANGED <<credentials, codec, inTime, lastEvent, daemonType, pubnub, connectionStatus,
                   timersMade, connectPc, connectMark, connectFrom, connectResult, beats,
                   messageQueue, mqLookup, callVars, lastPublish, obsStatus, obsMessages,
                   handled, now, framesLeft, eventsLeft, connectsLeft>>

\* disconnect()
Disconnect ==
    /\ disconnectsLeft > 0
    /\ disconnectsLeft' = disconnectsLeft - 1
    /\ timers' = timers \ {heartbeatTimer}    \* heartbeatTimer?.invalidate()
    /\ heartbeatTimer' = NoTimer
    /\ listening' = FALSE                     \* pubnub?.removeAllListeners()
    /\ subscribedChannels' = {}
    /\ mainQueue' = updateConnectionStatus(mainQueue, "disconnected", "disconnect")
    /\ sinceConnect' = sinceConnect \cup {"disconnect"}
    /\ atDisconnect' = Waiters(pendingResponses)
    /\ UNCHANGED <<credentials, codec, inTime, lastEvent, daemonType, pubnub, connectionStatus, timersMade, connectPc, connectMark,
                   connectFrom, connectResult, beats, pendingResponses, messageQueue,
                   mqLookup, callVars, lastPublish, obsStatus, obsMessages, handled, now,
                   framesLeft, eventsLeft, connectsLeft>>

\* the statuses of the transport's connectionStatusChanged event
TransportEvents == {"connected", "disconnected", "reconnecting", "connectionError", "other"}

\* .connectionError taken for .disconnected
StatusChangeErrorAsDisconnected(ev) ==
    CASE ev = "connected" -> "connected"
      [] ev = "disconnected" -> "disconnected"
      [] ev = "reconnecting" -> "reconnecting"
      [] ev = "connectionError" -> "disconnected"
      [] OTHER -> "none"

\* handleConnectionStatusChange(status): the status handed to updateConnectionStatus
handleConnectionStatusChange(ev) ==
    CASE ev = "connected" -> "connected"
      [] ev = "disconnected" -> "disconnected"
      [] ev = "reconnecting" -> "reconnecting"
      [] ev = "connectionError" -> "failed"
      [] OTHER -> "none"

\* client(_:didReceiveSubscription:) with .connectionStatusChanged(status)
TransportStatus(ev) ==
    /\ listening
    /\ subscribedChannels # {}           \* subscribed since the last unsubscribeAll()
    /\ eventsLeft > 0
    /\ eventsLeft' = eventsLeft - 1
    /\ lastEvent' = ev
    /\ mainQueue' = IF handleConnectionStatusChange(ev) = "none"
                    THEN mainQueue
                    ELSE updateConnectionStatus(mainQueue, handleConnectionStatusChange(ev),
                                                "transport")
    /\ sinceConnect' = IF handleConnectionStatusChange(ev) = "none"
                       THEN sinceConnect
                       ELSE sinceConnect \cup {"event"}
    /\ UNCHANGED <<credentials, codec, inTime, atDisconnect, daemonType, pubnub, listening,
                   connectionStatus, subscribedChannels, heartbeatTimer, timers, timersMade,
                   connectPc, connectMark, connectFrom, connectResult, beats,
                   pendingResponses, messageQueue, mqLookup, callVars, lastPublish,
                   obsStatus, obsMessages, handled, now, framesLeft, connectsLeft,
                   disconnectsLeft>>

\* A scheduled Timer fires: Task { try? await self.sendHeartbeat() }
TimerFire(t) ==
    /\ t \in timers
    /\ beats < MaxBeats
    /\ beats' = beats + 1
    /\ mainQueue' = Append(mainQueue, HeartbeatJob)
    /\ UNCHANGED <<auxVars, daemonType, pubnub, listening, connVars, pendingResponses, messageQueue,
                   mqLookup, callVars, lastPublish, obsStatus, obsMessages, handled, now,
                   budgetVars>>

\* sendHeartbeat() of that Task: publish(message: heartbeat, to: heartbeatChannel)
RunHeartbeatJob ==
    /\ mainQueue # <<>>
    /\ Head(mainQueue).job = "heartbeat"
    /\ mainQueue' = Tail(mainQueue)
    /\ lastPublish' = Published(daemonType, "heartbeat", heartbeatChannel, "timer")
    /\ UNCHANGED <<auxVars, daemonType, pubnub, listening, connVars, beats, pendingResponses,
                   messageQueue, mqLookup, callVars, obsStatus, obsMessages, handled, now,
                   budgetVars>>

NextConn ==
    \/ Connect
    \/ ConnectPublishSucceeds
    \/ ConnectPublishFails
    \/ RunResumeJob
    \/ RunStatusJob
    \/ Disconnect
    \/ \E ev \in TransportEvents : TransportStatus(ev)
    \/ \E t \in 1..MaxConnects : TimerFire(t)
    \/ RunHeartbeatJob

SpecConn == Init /\ [][NextConn]_vars

\* A connected manager and the transport's status events
InitEvents == Connected(MaxFrames, MaxStatusEvents)

NextEvents ==
    \/ \E ev \in TransportEvents : TransportStatus(ev)
    \/ RunStatusJob
    \/ Connect
    \/ ConnectPublishSucceeds
    \/ ConnectPublishFails
    \/ RunResumeJob
    \/ Disconnect

SpecEvents == InitEvents /\ [][NextEvents]_vars

\* -------------------------------------------------------------- publish
\* the channel names a caller may pass to publish(message:to:)
ExplicitChannels == Channels \cup {"custom"}

\* publish(message:to:) called by the host with a message of the given messageType, up
\* to pubnub.publish(channel:message:)
PublishCall(kind, ch) ==
    /\ pubnub
    /\ lastPublish' = Published(daemonType, kind, ch, "api")
    /\ UNCHANGED <<auxVars, daemonType, pubnub, listening, connVars, beats, pendingResponses,
                   mainQueue, messageQueue, mqLookup, callVars, obsStatus, obsMessages,
                   handled, now, budgetVars>>

NextRouter ==
    \E kind \in MessageType, ch \in ExplicitChannels \cup {NoChannel} : PublishCall(kind, ch)

SpecRouter == Init /\ [][NextRouter]_vars

\* ------------------------------------------------ correlation and dispatch
NextCorr ==
    \/ \E c \in Calls, id \in Ids, T \in 1..MaxTimeout : Register(c, id, T, NoChannel)
    \/ \E c \in Calls : PublishStart(c)
    \/ \E c \in Calls : PublishSucceeds(c)
    \/ \E c \in Calls : PublishFails(c)
    \/ \E c \in Calls : TimeoutLookup(c)
    \/ \E c \in Calls : TimeoutRemove(c)
    \/ Tick
    \/ \E f \in ResponseFrames(MaxFrames - framesLeft + 1) : Receive(f)
    \/ HandleLookup
    \/ HandleRemove
    \/ RunMessageJob

SpecCorr == InitConnected /\ [][NextCorr]_vars

\* ------------------------------------------------------------ dispatcher
\* Every frame the transport can deliver, with one publishAndWaitForResponse call
NextDisp ==
    \/ \E id \in Ids, T \in 1..MaxTimeout : Register(1, id, T, NoChannel)
    \/ PublishStart(1)
    \/ PublishSucceeds(1)
    \/ PublishFails(1)
    \/ TimeoutLookup(1)
    \/ TimeoutRemove(1)
    \/ Tick
    \/ \E f \in AllFrames(MaxFrames - framesLeft + 1) : Receive(f)
    \/ HandleLookup
    \/ HandleRemove
    \/ RunMessageJob

SpecDisp == InitConnected /\ [][NextDisp]_vars

\* ---------------------------------------------------------- cancellation
\* disconnect() with publishAndWaitForResponse calls outstanding
NextCancel ==
    \/ \E c \in Calls, id \in Ids, T \in 1..MaxTimeout : Register(c, id, T, NoChannel)
    \/ \E c \in Calls : PublishStart(c)
    \/ \E c \in Calls : PublishSucceeds(c)
    \/ \E c \in Calls : PublishFails(c)
    \/ \E c \in Calls : TimeoutLookup(c)
    \/ \E c \in Calls : TimeoutRemove(c)
    \/ Tick
    \/ Disconnect
    \/ RunStatusJob

SpecCancel == InitConnected /\ [][NextCancel]_vars

\* Frames handled one after the other, with a handler stored or not
InitFrames == Connected(MaxDispatchFrames, MaxEvents)

NextFrames ==
    \/ \E id \in Ids : Register(1, id, MaxTimeout, NoChannel)
    \/ \E f \in AllFrames(MaxFrames - framesLeft + 1) : Receive(f)
    \/ HandleLookup
    \/ HandleRemove
    \/ RunMessageJob
    \/ \E i \in 2..MaxDispatchFrames : RunLaterMessageJob(i)

SpecFrames == InitFrames /\ [][NextFrames]_vars

\* ----------------------------------------------------------------- codec
\* A peer makes a PubSubMessage of message m: PubSubMessage(message: m)
Wrap(m) ==
    /\ codec.stage = "none"
    /\ codec' = [stage |-> IF PubSubMessage(m) = Throws THEN "failed" ELSE "wrapped",
                 message |-> m, frame |-> PubSubMessage(m), decoded |-> Throws]
    /\ UNCHANGED <<credentials, inTime, lastEvent, atDisconnect, daemonType, pubnub, listening, connVars, beats,
                   pendingResponses, mainQueue, messageQueue, mqLookup, callVars,
                   lastPublish, obsStatus, obsMessages, handled, now, budgetVars>>

\* the fields a PubSubMessage has in common with the message in its payload
EnvelopeFields == {"messageType", "source", "target"}

\* the values a peer can give such a field
EnvelopeValues(field) ==
    CASE field = "messageType" -> MessageType
      [] field = "source" -> DaemonType
      [] field = "target" -> Targets

\* the PubSubMessage w declares a messageType, source or target that the message in
\* its payload does not have
Disagrees(w) ==
    \/ w.messageType # w.payload.messageType
    \/ w.source # w.payload.source
    \/ w.target # (IF "target" \in DOMAIN w.payload THEN w.payload.target ELSE Nil)

\* A peer publishes a PubSubMessage one of whose fields differs from the payload's:
\* the field of the wrapper is changed, or the key of the payload
Forge(inPayload, field, v) ==
    /\ codec.stage = "wrapped"
    /\ field \in (IF inPayload THEN DOMAIN codec.frame.payload ELSE EnvelopeFields)
    /\ v # codec.frame[field]
    /\ codec' = [codec EXCEPT
                   !.stage = "forged",
                   !.frame = IF inPayload
                             THEN [@ EXCEPT !.payload = [@ EXCEPT ![field] = v]]
                             ELSE [@ EXCEPT ![field] = v]]
    /\ UNCHANGED <<credentials, inTime, lastEvent, atDisconnect, daemonType, pubnub, listening, connVars, beats,
                   pendingResponses, mainQueue, messageQueue, mqLookup, callVars,
                   lastPublish, obsStatus, obsMessages, handled, now, budgetVars>>

\* decodeMessage(pubSubMessage) on the PubSubMessage: the typed message, or the throw
Decode ==
    /\ codec.stage \in {"wrapped", "forged"}
    /\ codec' = [codec EXCEPT
                   !.stage = IF codec.stage = "wrapped" THEN "decoded" ELSE "decodedForged",
                   !.decoded = IF decodeMessage(AsFrame(codec.frame, 1)) = "ok"
                               THEN decode(codec.frame, codec.frame.messageType)
                               ELSE Throws]
    /\ UNCHANGED <<credentials, inTime, lastEvent, atDisconnect, daemonType, pubnub, listening, connVars, beats,
                   pendingResponses, mainQueue, messageQueue, mqLookup, callVars,
                   lastPublish, obsStatus, obsMessages, handled, now, budgetVars>>

\* The transport delivers the PubSubMessage to this manager
Deliver ==
    /\ codec.stage \in {"decoded", "decodedForged"}
    /\ Receive(AsFrame(codec.frame, MaxFrames - framesLeft + 1))

NextCodec ==
    \/ \E m \in BaseMessage : Wrap(m)
    \/ \E inPayload \in BOOLEAN, field \in EnvelopeFields :
          \E v \in EnvelopeValues(field) : Forge(inPayload, field, v)
    \/ Decode
    \/ Deliver
    \/ HandleLookup
    \/ RunMessageJob

SpecCodec == InitConnected /\ [][NextCodec]_vars

\* ------------------------------------------------------------ properties
Has(seq, x) == \E i \in 1..Len(seq) : seq[i] = x

\* Nothing that could still resume the continuation of call c is left: its timeout
\* closure and its publish Task have run, and its handler is neither stored nor held
\* by handleReceivedMessage.
Quiescent(c) ==
    /\ callId[c] # 0
    /\ callTimer[c] = "done"
    /\ callPublish[c] = "done"
    /\ mqLookup.handler # c
    /\ \A k \in Ids : pendingResponses[k] # c

\* C1: the continuation of every publishAndWaitForResponse call is resumed at most
\* once, whatever the order of the matching Response, the timeout and the end of the
\* publish.
C1_CompletedAtMostOnce == \A c \in Calls : Len(completions[c]) <= 1

\* C2: no call is left waiting for ever: once nothing is left that could complete a
\* call, the call has been completed (at most once is C1).
C2_NoCallerLeftWaiting == \A c \in Calls : Quiescent(c) => Len(completions[c]) >= 1

\* C3 as claimed: a call whose timeout closure has run and that received no Response
\* (here: the transport delivered no frame at all) has failed with Timeout.
C3_TimeoutWithoutResponse ==
    \A c \in Calls :
        (callTimer[c] = "done" /\ framesLeft = MaxFrames) => Has(completions[c], "timeout")

\* C3 as amended: Timeout is delivered to a call only by its own timeout closure, never
\* earlier than its timeout after the call registered its handler, and it is delivered
\* whenever that closure found an entry stored under the command's id.
C3_TimeoutAtOrAfterDeadline ==
    [][\A c \in Calls :
         /\ (/\ completions'[c] # completions[c]
             /\ completions'[c][Len(completions'[c])] = "timeout")
            => (callTimer[c] = "found" /\ now >= callAt[c] + callTimeout[c])
         /\ (callTimer[c] = "armed" /\ callTimer'[c] # "armed")
            => /\ now >= callAt[c] + callTimeout[c]
               /\ callTimer'[c] = "found" <=> pendingResponses[callId[c]] # NoCall
         /\ (callTimer[c] = "found" /\ callTimer'[c] # "found")
            => completions'[c] = Append(completions[c], "timeout")]_vars

C3_Witness ==
    \E c \in Calls : completions[c] = <<"timeout">> /\ now = callAt[c] + callTimeout[c]

\* C4: a handler stored under a command id is never replaced by the handler of
\* another call while it is pending.
C4_DuplicateRejected ==
    [][\A k \in Ids :
         (pendingResponses[k] # NoCall /\ pendingResponses'[k] # NoCall)
         => pendingResponses'[k] = pendingResponses[k]]_vars

\* C5: the handler of a call that timed out is no longer stored, and a Response whose
\* correlationId has no handler stored resumes no continuation and leaves
\* pendingResponses as it was.
C5_LateResponseIsNoOp ==
    /\ [](\A c \in Calls :
            Has(completions[c], "timeout") => pendingResponses[callId[c]] # c)
    /\ [][(/\ mqLookup = Idle
           /\ messageQueue # <<>>
           /\ messageQueue' = Tail(messageQueue)
           /\ Head(messageQueue).parses
           /\ Head(messageQueue).messageType = "response"
           /\ Head(messageQueue).payloadOk
           /\ pendingResponses[Head(messageQueue).correlationId] = NoCall)
          => (/\ pendingResponses' = pendingResponses
              /\ completions' = completions
              /\ mqLookup' = Idle)]_vars

C5_Witness ==
    /\ handled.fate = "forwarded"
    /\ handled.frame.messageType = "response"
    /\ \E c \in Calls : /\ callId[c] = handled.frame.correlationId
                        /\ completions[c] = <<"timeout">>
                        /\ Quiescent(c)

\* C6: a frame whose source is the daemon's own role is skipped: it is not handed to
\* the delegate and it resolves no pending handler, whatever its messageType.
C6_SelfEchoSuppressed ==
    /\ (handled.fate # "none" /\ handled.frame.parses /\ handled.frame.source = daemonType)
       => handled.fate = "self"
    /\ \A i \in 1..Len(obsMessages) : obsMessages[i].source # daemonType
    /\ \A i \in 1..Len(mainQueue) :
          mainQueue[i].job = "message" => mainQueue[i].msg.source # daemonType
    /\ mqLookup # Idle => mqLookup.frame.source # daemonType

C6_Witness ==
    /\ handled.fate = "self"
    /\ handled.frame.messageType = "response"
    /\ handled.frame.payloadOk
    /\ pendingResponses[handled.frame.correlationId] # NoCall

\* C7 as claimed: no daemon, whatever its role, skips a frame whose source is
\* broadcast as its own.
C7_BroadcastNeverSkipped ==
    (handled.frame.parses /\ handled.frame.source = "broadcast") => handled.fate # "self"

\* C7 as amended: a frame whose source is broadcast is skipped as the daemon's own
\* exactly when the daemon's role is broadcast; a user or system daemon never skips it.
C7_BroadcastSkippedOnlyByBroadcast ==
    (handled.fate # "none" /\ handled.frame.parses /\ handled.frame.source = "broadcast")
    => (handled.fate = "self" <=> daemonType = "broadcast")

C7_Witness ==
    /\ daemonType \in {"user", "system"}
    /\ handled.frame.parses
    /\ handled.frame.source = "broadcast"
    /\ handled.fate = "forwarded"

\* C8 and C9: the tables of the claims
C8_Channels(role) ==
    CASE role = "user" -> {"user", "heartbeat", "command", "status"}
      [] role = "system" -> {"system", "heartbeat", "command", "status"}
      [] role = "broadcast" -> {"system", "user", "heartbeat", "command", "status"}

C9_Channel(role, kind) ==
    CASE kind = "heartbeat" -> "heartbeat"
      [] kind = "system_status" -> "status"
      [] kind = "command" -> "command"
      [] kind = "response" -> "command"
      [] kind = "user_activity" -> "user"
      [] kind \in {"configuration", "error", "shutdown"} ->
           IF role = "user" THEN "user" ELSE "system"

\* C8 as claimed: when connect() returns without an error, subscribedChannels is the
\* channel set of the daemon's role.
C8_SubscribedAtReturn ==
    connectResult.outcome = "ok" => connectResult.subscribed = C8_Channels(daemonType)

\* C8 as amended: from the moment connect() subscribes, and still when it returns,
\* subscribedChannels is the channel set of the daemon's role (user: never system,
\* system: never user, broadcast: all five) for as long as disconnect() has not run
\* since.
C8_SubscribedUnlessDisconnected ==
    /\ (connectFrom # "none" /\ "disconnect" \notin sinceConnect)
       => subscribedChannels = C8_Channels(daemonType)
    /\ (connectResult.outcome = "ok" /\ "disconnect" \notin connectResult.since)
       => connectResult.subscribed = C8_Channels(daemonType)

C8_Witness ==
    /\ connectResult.outcome = "ok"
    /\ connectResult.from = "disconnected"
    /\ "disconnect" \notin connectResult.since
    /\ connectPc = "idle"
    /\ subscribedChannels # {}

\* C9: publish(message:to:) sends to the channel given, and without one to the
\* channel the table gives for the messageType and the daemon's role.
C9_PublishChannel ==
    lastPublish.origin = "api"
    => lastPublish.target = (IF lastPublish.channel # NoChannel
                             THEN lastPublish.channel
                             ELSE C9_Channel(daemonType, lastPublish.messageType))

C9_Witness ==
    /\ lastPublish.origin = "api"
    /\ daemonType = "broadcast"
    /\ lastPublish.messageType = "configuration"
    /\ lastPublish.channel = NoChannel
    /\ lastPublish.target = "system"

\* the delegate was told "connecting" and then, next, "connected" by the connect()
\* that returned last
ToldConnectingThenConnected ==
    \E i \in 1..Len(obsStatus) :
        /\ i > connectResult.mark
        /\ i < Len(obsStatus)
        /\ obsStatus[i] = [status |-> "connecting", origin |-> "connect"]
        /\ obsStatus[i + 1] = [status |-> "connected", origin |-> "connect"]

\* the two notifications of a connect() reach the delegate next to each other
ConnectingNextToConnected ==
    \A i \in 1..Len(obsStatus) :
        /\ (obsStatus[i] = [status |-> "connecting", origin |-> "connect"]
            /\ i < Len(obsStatus))
           => obsStatus[i + 1] = [status |-> "connected", origin |-> "connect"]
        /\ obsStatus[i] = [status |-> "connected", origin |-> "connect"]
           => (i > 1 /\ obsStatus[i - 1] = [status |-> "connecting", origin |-> "connect"])

C11_NoHeartbeatAfterDisconnect ==
    [][("disconnect" \in sinceConnect) => (beats' = beats)]_vars

\* C12: disconnect() leaves no channel subscribed and no heartbeat timer scheduled, and
\* the last status it has asked for is Disconnected, whatever the state it is called in.
C12_DisconnectEndsDisconnected ==
    [][(disconnectsLeft' # disconnectsLeft)
       => (/\ subscribedChannels' = {}
           /\ heartbeatTimer' = NoTimer
           /\ timers' = {}
           /\ mainQueue' # <<>>
           /\ mainQueue'[Len(mainQueue')] = StatusJob("disconnected", "disconnect"))]_vars

\* C13 as claimed: B has role user; a Response of system-role A whose correlationId is
\* the id of B's Command reached B while B's handler was stored and before B's timeout
\* had elapsed.  Once handleReceivedMessage is through with it, B's caller has been
\* completed with the Response, and with nothing else, and the entry is removed.
C13_ResponseBeforeTimeout ==
    (/\ daemonType = "user"
     /\ inTime
     /\ handled.frame.seq = MaxFrames - framesLeft
     /\ handled.frame.source = "system"
     /\ handled.fate \notin {"none", "lookup"})
    => (/\ completions[1] = <<"response">>
        /\ pendingResponses[handled.frame.correlationId] = NoCall)

\* C13 as amended: when handleReceivedMessage of B (role user) takes a Response of A
\* (role system) while a handler is stored under its correlationId, the call that
\* stored the handler is completed with the Response, the entry is removed and the
\* Response is not handed to the delegate.
C13_ResponseTakenWhilePending ==
    [][/\ (/\ daemonType = "user"
           /\ mqLookup = Idle
           /\ messageQueue # <<>>
           /\ messageQueue' = Tail(messageQueue)
           /\ Head(messageQueue).parses
           /\ Head(messageQueue).source = "system"
           /\ Head(messageQueue).messageType = "response"
           /\ Head(messageQueue).payloadOk
           /\ pendingResponses[Head(messageQueue).correlationId] # NoCall)
          => (/\ mqLookup' =
                   [handler |-> pendingResponses[Head(messageQueue).correlationId],
                    frame |-> Head(messageQueue)]
              /\ mainQueue' = mainQueue)
       /\ (daemonType = "user" /\ mqLookup # Idle /\ mqLookup' = Idle)
          => (/\ completions'[mqLookup.handler]
                   = Append(completions[mqLookup.handler], "response")
              /\ pendingResponses'[mqLookup.frame.correlationId] = NoCall
              /\ mainQueue' = mainQueue
              /\ obsMessages' = obsMessages)]_vars

C13_Witness ==
    /\ daemonType = "user"
    /\ inTime
    /\ handled.fate = "resolved"
    /\ handled.frame.source = "system"
    /\ handled.frame.correlationId = callId[1]
    /\ completions[1] = <<"response">>
    /\ pendingResponses[callId[1]] = NoCall
    /\ callTimer[1] = "armed"

\* C14 as claimed: every message of the four structs can be wrapped in a PubSubMessage,
\* whose messageType, source and target are the message's, and decoding the
\* PubSubMessage as the struct of the message gives a message equal to it in every
\* property.
C14_RoundTrip ==
    /\ codec.stage # "failed"
    /\ codec.stage \in {"wrapped", "decoded"}
       => (/\ codec.frame.messageType = codec.message.messageType
           /\ codec.frame.source = codec.message.source
           /\ codec.frame.target = codec.message.target)
    /\ codec.stage = "decoded" => codec.decoded = codec.message

\* C14 as amended: the same for every message whose Double properties (systemLoad,
\* memoryUsage, uptime of a HeartbeatMessage) are finite; a message with a Double that
\* is not finite cannot be wrapped, PubSubMessage(message:) throws.
C14_RoundTripOfFiniteValues ==
    /\ codec.stage = "failed"
       <=> (/\ codec.stage # "none"
            /\ \E k \in DOMAIN codec.message \cap DoubleProperties :
                   codec.message[k] = "inf")
    /\ codec.stage \in {"wrapped", "decoded"}
       => (/\ codec.frame.messageType = codec.message.messageType
           /\ codec.frame.source = codec.message.source
           /\ codec.frame.target = codec.message.target)
    /\ codec.stage = "decoded" => codec.decoded = codec.message

C14_Witness ==
    /\ codec.stage = "decoded"
    /\ codec.message.messageType = "heartbeat"
    /\ codec.message.target = Nil
    /\ codec.message.systemLoad = Nil
    /\ codec.message.memoryUsage = "0.5"
    /\ "target" \notin DOMAIN codec.frame.payload
    /\ codec.decoded = codec.message

\* C15: a PubSubMessage whose messageType, source or target differs from that of the
\* message in its payload does not decode (decodeMessage throws), is not handed to the
\* delegate and resolves no pending handler.
C15_DisagreeingFrameRejected ==
    (codec.stage = "decodedForged" /\ Disagrees(codec.frame))
    => (/\ codec.decoded = Throws
        /\ handled.fate \notin {"lookup", "resolved", "forwarded"}
        /\ obsMessages = <<>>)

\* C16: the status changes of the claim, by being the origin of the status Task
C16_Allowed(from, to, by) ==
    \/ from = "disconnected" /\ to = "connecting"
    \/ from = "connecting" /\ to = "connected"
    \/ from = "connected" /\ to = "reconnecting"
    \/ from = "reconnecting" /\ to = "connected"
    \/ to = "failed"
    \/ from = "failed" /\ to = "connecting"
    \/ to = "disconnected" /\ by = "disconnect"

\* C16: connectionStatus is Disconnected at first and every change of it is one of
\* the changes above; connect() called when Connected does not make it Connecting.
C16_StatusTransitions ==
    /\ connectionStatus = "disconnected"
    /\ [][(connectionStatus' # connectionStatus)
          => C16_Allowed(connectionStatus, connectionStatus', Head(mainQueue).origin)]_vars

\* C17: connect() called on a manager whose configuration has no keys fails with
\* notConfigured and changes nothing: no status Task is created, no channel is
\* subscribed and no heartbeat timer is scheduled.
C17_NotConfiguredChangesNothing ==
    [][(~credentials /\ connectsLeft' # connectsLeft)
       => (/\ connectResult'.outcome = "notConfigured"
           /\ mainQueue' = mainQueue
           /\ subscribedChannels' = subscribedChannels
           /\ timers' = timers
           /\ heartbeatTimer' = heartbeatTimer)]_vars

\* C18: the state each transport status event stands for
C18_Status(ev) ==
    CASE ev = "connected" -> "connected"
      [] ev = "disconnected" -> "disconnected"
      [] ev = "reconnecting" -> "reconnecting"
      [] ev = "connectionError" -> "failed"

\* the delegate was told last of Failed, by a transport error received when Connected
FailedByTransport ==
    /\ Len(obsStatus) >= 2
    /\ obsStatus[Len(obsStatus)] = [status |-> "failed", origin |-> "transport"]
    /\ obsStatus[Len(obsStatus) - 1].status = "connected"
    /\ connectionStatus = "failed"

\* C18 as claimed: after a transport error received when Connected the status stays
\* Failed until connect() or disconnect() is called.
C18_FailedUntilExplicitCall ==
    [][(FailedByTransport /\ connectionStatus' # connectionStatus)
       => Head(mainQueue).origin \in {"connect", "disconnect"}]_vars

\* C18 as amended: a transport status event creates the status Task of the state it
\* stands for (connectionError: Failed) and nothing else: no channel is subscribed, no
\* connect() is started, no timer is made and nothing is published; the Task sets the
\* status and tells the delegate; after a transport error received when Connected the
\* status stays Failed until connect() or disconnect() is called or the transport
\* sends another status event.
C18_TransportEventSetsStatus ==
    [][/\ (eventsLeft' # eventsLeft)
          => (/\ mainQueue' = IF lastEvent' = "other"
                              THEN mainQueue
                              ELSE Append(mainQueue,
                                          StatusJob(C18_Status(lastEvent'), "transport"))
              /\ UNCHANGED <<connectionStatus, obsStatus, subscribedChannels, timers,
                             heartbeatTimer, connectPc, connectsLeft, lastPublish>>)
       /\ (/\ mainQueue # <<>>
           /\ Head(mainQueue).origin = "transport"
           /\ mainQueue' = Tail(mainQueue))
          => (/\ connectionStatus' = Head(mainQueue).status
              /\ obsStatus' = Append(obsStatus, [status |-> Head(mainQueue).status,
                                                 origin |-> "transport"])
              /\ UNCHANGED <<subscribedChannels, timers, heartbeatTimer, connectPc,
                             connectsLeft, lastPublish>>)
       /\ (FailedByTransport /\ connectionStatus' # connectionStatus)
          => Head(mainQueue).origin \in {"connect", "disconnect", "transport"}]_vars

C18_Witness ==
    /\ FailedByTransport
    /\ lastEvent = "connectionError"
    /\ mainQueue = <<>>
    /\ connectPc = "idle"
    /\ connectsLeft = MaxConnects - 1
    /\ disconnectsLeft = MaxDisconnects

\* C19: whenever the status is not Connected (no status Task and no connect() being
\* under way), no heartbeat timer is scheduled.
C19_HeartbeatOnlyWhileConnected ==
    (mainQueue = <<>> /\ connectPc = "idle" /\ connectionStatus # "connected")
    => timers = {}

\* C20: the frames the claim is about: the payload is no PubSubMessage, the message in
\* it does not decode, or the messageType has no struct
Malformed(f) ==
    \/ ~f.parses
    \/ ~f.payloadOk
    \/ f.messageType \in {"user_activity", "configuration", "error", "shutdown"}

\* C20: handleReceivedMessage drops a malformed frame: no Task for the delegate is
\* created, pendingResponses stays as it was and no continuation is resumed; the next
\* frame of the queue is handled as if the dropped one had not been there: a
\* well-formed frame of another daemon resolves the handler stored under its
\* correlationId or goes to the delegate.
C20_MalformedFrameDropped ==
    /\ [](/\ \A i \in 1..Len(obsMessages) : ~Malformed(obsMessages[i])
          /\ \A i \in 1..Len(mainQueue) :
                mainQueue[i].job = "message" => ~Malformed(mainQueue[i].msg)
          /\ mqLookup # Idle => ~Malformed(mqLookup.frame)
          /\ (handled.fate # "none" /\ Malformed(handled.frame))
             => handled.fate \in {"undecoded", "self", "thrown"}
          /\ (/\ handled.previous \in {"undecoded", "thrown"}
              /\ ~Malformed(handled.frame)
              /\ handled.frame.source # daemonType)
             => handled.fate \in {"lookup", "resolved", "forwarded"})
    /\ [][(/\ mqLookup = Idle
           /\ messageQueue # <<>>
           /\ messageQueue' = Tail(messageQueue)
           /\ Malformed(Head(messageQueue)))
          => (/\ pendingResponses' = pendingResponses
              /\ completions' = completions
              /\ mainQueue' = mainQueue
              /\ obsMessages' = obsMessages
              /\ mqLookup' = Idle)]_vars

C20_Witness ==
    /\ handled.previous = "thrown"
    /\ handled.fate = "resolved"
    /\ completions[1] = <<"response">>
    /\ obsMessages = <<>>
    /\ mainQueue = <<>>

\* the frame is the message of a Task for the delegate, or the delegate has got it
AtDelegate(f) ==
    \/ Has(obsMessages, f)
    \/ \E i \in 1..Len(mainQueue) : mainQueue[i] = MessageJob(f)

\* C21: a Response that resolves a stored handler goes to that handler only, never to
\* the delegate as well; every decoded message of another daemon that is no Response
\* goes to the delegate.
C21_ResponseStopsAtHandler ==
    /\ [](/\ handled.fate \in {"lookup", "resolved"} => ~AtDelegate(handled.frame)
          /\ (/\ handled.fate # "none"
              /\ handled.frame.parses
              /\ handled.frame.source # daemonType
              /\ decodeMessage(handled.frame) = "ok"
              /\ handled.frame.messageType # "response")
             => (handled.fate = "forwarded" /\ AtDelegate(handled.frame)))
    /\ [][(mqLookup # Idle /\ mqLookup' = Idle)
          => (/\ completions'[mqLookup.handler]
                   = Append(completions[mqLookup.handler], "response")
              /\ mainQueue' = mainQueue
              /\ obsMessages' = obsMessages)]_vars

C21_Witness ==
    /\ handled.fate = "resolved"
    /\ handled.previous = "forwarded"
    /\ Len(obsMessages) = 1
    /\ obsMessages[1].messageType = "command"
    /\ completions[1] = <<"response">>
    /\ mainQueue = <<>>

\* C22: of the Responses carrying the correlationId of one pending command only the
\* first completes the call; a later one finds no handler and goes to the delegate.
C22_FirstResponseOnly ==
    /\ \A i, j \in 1..Len(completions[1]) :
          (completions[1][i] = "response" /\ completions[1][j] = "response") => i = j
    /\ (/\ handled.previous = "resolved"
        /\ handled.frame.parses
        /\ handled.frame.source # daemonType
        /\ handled.frame.messageType = "response"
        /\ handled.frame.payloadOk
        /\ handled.frame.correlationId = callId[1])
       => (handled.fate = "forwarded" /\ AtDelegate(handled.frame))

C22_Witness ==
    /\ handled.previous = "resolved"
    /\ handled.fate = "forwarded"
    /\ handled.frame.messageType = "response"
    /\ handled.frame.correlationId = callId[1]
    /\ completions[1] = <<"response">>
    /\ obsMessages = <<handled.frame>>

\* C23: pendingResponses is never in use by two execution contexts at once: the
\* timeout closure of a call (global queue) is not between its lookup and its removal
\* while handleReceivedMessage (messageQueue) or the timeout closure of another call
\* is.
C23_ExclusiveAccess ==
    /\ \A c \in Calls : callTimer[c] = "found" => mqLookup = Idle
    /\ \A c, d \in Calls : (callTimer[c] = "found" /\ callTimer[d] = "found") => c = d

\* C24: the delegate gets the messages in the order the transport delivered them.
C24_DeliveryOrder ==
    \A i, j \in 1..Len(obsMessages) : i < j => obsMessages[i].seq < obsMessages[j].seq

\* C25 as claimed: every call whose handler was stored when disconnect() ran is
\* completed with Timeout, and with nothing else, once nothing of it is left to run.
C25_WaitersTimeOutAfterDisconnect ==
    \A c \in atDisconnect : Quiescent(c) => completions[c] = <<"timeout">>

\* C25 as amended: disconnect() leaves the pending mapping and the outstanding calls as
\* they are; a call whose handler was stored when disconnect() ran keeps its timeout
\* closure, which runs no earlier than the call's own deadline and completes the call
\* with Timeout exactly when it still finds an entry under the command's id.
C25_DisconnectLeavesWaiters ==
    [][/\ (disconnectsLeft' # disconnectsLeft)
          => (/\ pendingResponses' = pendingResponses
              /\ completions' = completions
              /\ callTimer' = callTimer
              /\ callPublish' = callPublish
              /\ atDisconnect' = Waiters(pendingResponses))
       /\ \A c \in atDisconnect :
             /\ (callTimer[c] = "armed" /\ callTimer'[c] # "armed")
                => /\ now >= callAt[c] + callTimeout[c]
                   /\ callTimer'[c] = "found" <=> pendingResponses[callId[c]] # NoCall
             /\ (callTimer[c] = "found" /\ callTimer'[c] # "found")
                => completions'[c] = Append(completions[c], "timeout")
             /\ (completions'[c] # completions[c]
                 /\ completions'[c][Len(completions'[c])] = "timeout")
                => callTimer[c] = "found"]_vars

\* a call outstanding at disconnect(), with its timer still armed then, has been
\* completed with Timeout
C25_Witness ==
    /\ "disconnect" \in sinceConnect
    /\ \E c \in atDisconnect :
          /\ completions[c] = <<"timeout">>
          /\ Quiescent(c)
          /\ now >= callAt[c] + callTimeout[c]
          /\ subscribedChannels = {}

\* C26: a publish failure completes the caller with the error exactly once, and with
\* nothing else: a call already completed by its timeout or by a Response is not
\* completed again by the failure.
C26_PublishFailureOnce ==
    [][\A c \in Calls :
         (completions'[c] # completions[c] /\ completions'[c][Len(completions'[c])] = "error")
         => (/\ completions[c] = <<>>
             /\ pendingResponses'[callId[c]] = NoCall)]_vars

\* C27: a connect() that returns an error leaves no heartbeat timer scheduled and no
\* channel recorded as subscribed, and the status it asked for is Failed.
C27_FailedConnectLeavesNothing ==
    [][(connectPc = "resuming" /\ connectPc' = "idle" /\ connectResult'.outcome = "error")
       => (/\ timers' = {}
           /\ heartbeatTimer' = NoTimer
           /\ subscribedChannels' = {}
           /\ Has(mainQueue', StatusJob("failed", "connect")))]_vars

\* C28: at most one heartbeat timer is scheduled at any time.
C28_OneHeartbeatSchedule == Cardinality(timers) <= 1

\* C29: whenever no status update is on its way and no connect() is running, the
\* recorded set of subscribed channels is empty if the status is Disconnected and is
\* the channel set of the role if the status is Connected.
C29_SubscribedMatchesStatus ==
    (mainQueue = <<>> /\ connectPc = "idle")
    => (/\ connectionStatus = "disconnected" => subscribedChannels = {}
        /\ connectionStatus = "connected" => subscribedChannels = C8_Channels(daemonType))

\* C30: a manager whose connect() has returned successfully, and that was not
\* disconnected since, has its listener registered with the transport, so that frames
\* and status events reach it; so it is after a disconnect() too.
C30_ListeningAfterConnect ==
    (connectPc = "idle" /\ connectResult.outcome = "ok" /\ subscribedChannels # {})
    => listening

====
